---- MODULE Spec2Model ----
(***************************************************************************)
(* The quiz wizard of src/app/quiz/page.tsx: the React state of the Quiz   *)
(* component, the three localStorage keys it writes, and the calls it      *)
(* makes to router.push.  One action per click handler.                    *)
(*                                                                         *)
(* router.push does not unmount the component: the handler returns with    *)
(* the question screen still rendered at the last index, and the page is   *)
(* replaced when the navigation commits (NavCommit).  Until then the       *)
(* buttons of the question screen still fire their handlers.               *)
(***************************************************************************)
EXTENDS Integers, Sequences, FiniteSets, TLC

\* ------------------------------------------------------------------ bounds
MaxQuestions == 3      \* questions of the longest path
MaxPoints    == 4      \* largest point value of an option
MaxPushes    == 2      \* router.push calls followed per run of the questions

\* --------------------------------------------------------------- constants
Null == "null"         \* the null of useState<... | null>(null)
Hole == -1             \* an empty slot of a sparse JS array

ScoreKey   == "focusFoundersQuizScore"
AnswersKey == "focusFoundersQuizAnswers"
PathKey    == "focusFoundersQuizPath"
Keys       == {ScoreKey, AnswersKey, PathKey}

Steps == {"intro", "business-type", "growth-stage", "questions"}

\* ------------------------------------------------------------ catalog data
BusinessTypes == {"freelancer", "agency"}

growthStages == <<"startup", "growing", "scaling">>

GrowthStages == {growthStages[i] : i \in 1..Len(growthStages)}

\* ----------------------------------------------------------- question bank
\* Number of questions authored for a path: non-empty, and different paths
\* have different lengths.
QuestionCount(bt, gs) ==
  IF bt = "freelancer" THEN MaxQuestions
  ELSE IF gs = "startup" THEN 1
  ELSE IF MaxQuestions > 1 THEN MaxQuestions - 1 ELSE 1

\* getQuestionsForPath(businessType, growthStage): the ordered questions of
\* the path; a question is modelled by the set of point values of its
\* options (three options per question).
getQuestionsForPath(bt, gs) ==
  [i \in 1..QuestionCount(bt, gs) |-> {1, 2, MaxPoints}]

\* ------------------------------------------------------------ conversions
Digit(d) ==
  CASE d = 0 -> "0" [] d = 1 -> "1" [] d = 2 -> "2" [] d = 3 -> "3"
    [] d = 4 -> "4" [] d = 5 -> "5" [] d = 6 -> "6" [] d = 7 -> "7"
    [] d = 8 -> "8" [] d = 9 -> "9"

RECURSIVE toString(_)
\* Number.prototype.toString() of a non-negative integer: its decimal
\* digits, most significant first, as a sequence of characters.
toString(n) ==
  IF n < 10 THEN <<Digit(n)>> ELSE Append(toString(n \div 10), Digit(n % 10))

JsonNull == <<"n", "u", "l", "l">>

\* JSON.stringify of a number[]: one token per slot, a hole becomes null.
stringifyArray(a) ==
  [i \in 1..Len(a) |-> IF a[i] = Hole THEN JsonNull ELSE toString(a[i])]

Quote(s) == IF s = Null THEN "null" ELSE "\"" \o s \o "\""

\* JSON.stringify({ businessType, growthStage })
stringifyPath(bt, gs) ==
  "{\"businessType\":" \o Quote(bt) \o ",\"growthStage\":" \o Quote(gs) \o "}"

\* ---------------------------------------------------------- array helpers
RECURSIVE Pad(_, _)
Pad(a, n) == IF Len(a) >= n THEN a ELSE Pad(Append(a, Hole), n)

\* ArraySet as newAnswers.push(v): the index is ignored.
ArraySet_push(a, i, v) == Append(a, v)

\* ArraySet as [...a.slice(0, i), v]: the slots after i are dropped.
ArraySet_truncate(a, i, v) == Append(SubSeq(a, 1, IF i < Len(a) THEN i ELSE Len(a)), v)

\* newAnswers[i] = v on a copy of a (i is zero-based); writing past the end
\* leaves holes.
ArraySet(a, i, v) ==
  IF i < Len(a) THEN [a EXCEPT ![i + 1] = v] ELSE Append(Pad(a, i), v)

RECURSIVE reduceSum_noLast(_)
\* reduceSum over the list without its last slot (a sum taken from the list
\* as it was before the last answer was recorded).
reduceSum_noLast(a) ==
  IF Len(a) <= 1 THEN 0
  ELSE (IF Head(a) = Hole THEN 0 ELSE Head(a)) + reduceSum_noLast(Tail(a))

RECURSIVE reduceSum(_)
\* a.reduce((sum, score) => sum + score, 0); reduce skips holes.
reduceSum(a) ==
  IF a = <<>> THEN 0
  ELSE (IF Head(a) = Hole THEN 0 ELSE Head(a)) + reduceSum(Tail(a))

\* ------------------------------------------------------------ localStorage
removeItem(ls, k) == [x \in (DOMAIN ls) \ {k} |-> ls[x]]

setItem(ls, k, v) == [x \in (DOMAIN ls) \cup {k} |-> IF x = k THEN v ELSE ls[x]]

\* -------------------------------------------------------------------- state
VARIABLES
  mounted,               \* the Quiz component is rendered
  step,
  selectedBusinessType,
  selectedGrowthStage,
  currentQuestionIndex,
  answers,
  localStorage,          \* function from the keys present to their values
  navigating,            \* router.push was called, the results view is not shown yet
  pushes,                \* history: router.push calls since the last growth-stage choice
  chosen,                \* history: index -> points most recently clicked
  last                   \* history: the handler that ran last

vars == <<mounted, step, selectedBusinessType, selectedGrowthStage,
          currentQuestionIndex, answers, localStorage, navigating, pushes,
          chosen, last>>

reactState == <<step, selectedBusinessType, selectedGrowthStage,
                currentQuestionIndex, answers>>

NoChoice == [i \in {} |-> 0]

\* What a handler did: its name, the index, list length and stored keys it
\* found, the keys it wrote with setItem (in call order), and whether it
\* called router.push.
Did(op, writes, handoff) ==
  [op |-> op, index |-> currentQuestionIndex, len |-> Len(answers),
   keys |-> DOMAIN localStorage, writes |-> writes, handoff |-> handoff]

\* useState initialisers of Quiz
Init ==
  /\ mounted = TRUE
  /\ step = "intro"
  /\ selectedBusinessType = Null
  /\ selectedGrowthStage = Null
  /\ currentQuestionIndex = 0
  /\ answers = <<>>
  /\ localStorage = [k \in {} |-> <<>>]
  /\ navigating = FALSE
  /\ pushes = 0
  /\ chosen = NoChoice
  /\ last = [op |-> "mount", index |-> 0, len |-> 0, keys |-> {},
             writes |-> <<>>, handoff |-> FALSE]

\* ------------------------------------------------------------------ actions
startQuiz ==
  /\ mounted /\ step = "intro"
  /\ step' = "business-type"
  /\ last' = Did("startQuiz", <<>>, FALSE)
  /\ UNCHANGED <<mounted, selectedBusinessType, selectedGrowthStage,
                 currentQuestionIndex, answers, localStorage, navigating,
                 pushes, chosen>>

\* selectBusinessType that also stores the path chosen so far.
selectBusinessType_savesPath(businessType) ==
  /\ mounted /\ step = "business-type"
  /\ selectedBusinessType' = businessType
  /\ localStorage' =
       setItem(localStorage, PathKey, stringifyPath(businessType, selectedGrowthStage))
  /\ step' = "growth-stage"
  /\ last' = Did("selectBusinessType", <<PathKey>>, FALSE)
  /\ UNCHANGED <<mounted, selectedGrowthStage, currentQuestionIndex, answers,
                 navigating, pushes, chosen>>

\* selectBusinessType without the setSelectedBusinessType call.
selectBusinessType_noSet(businessType) ==
  /\ mounted /\ step = "business-type"
  /\ step' = "growth-stage"
  /\ last' = Did("selectBusinessType", <<>>, FALSE)
  /\ UNCHANGED <<mounted, selectedBusinessType, selectedGrowthStage,
                 currentQuestionIndex, answers, localStorage, navigating,
                 pushes, chosen>>

selectBusinessType(businessType) ==
  /\ mounted /\ step = "business-type"
  /\ selectedBusinessType' = businessType
  /\ step' = "growth-stage"
  /\ last' = Did("selectBusinessType", <<>>, FALSE)
  /\ UNCHANGED <<mounted, selectedGrowthStage, currentQuestionIndex, answers,
                 localStorage, navigating, pushes, chosen>>

\* selectGrowthStage without the setAnswers([]) call.
selectGrowthStage_keepsAnswers(growthStage) ==
  /\ mounted /\ step = "growth-stage"
  /\ selectedGrowthStage' = growthStage
  /\ localStorage' =
       setItem(removeItem(removeItem(localStorage, ScoreKey), AnswersKey),
               PathKey, stringifyPath(selectedBusinessType, growthStage))
  /\ currentQuestionIndex' = 0
  /\ step' = "questions"
  /\ pushes' = 0
  /\ chosen' = NoChoice
  /\ last' = Did("selectGrowthStage", <<PathKey>>, FALSE)
  /\ UNCHANGED <<mounted, selectedBusinessType, navigating, answers>>

\* selectGrowthStage without the removeItem of the score key.
selectGrowthStage_keepsScore(growthStage) ==
  /\ mounted /\ step = "growth-stage"
  /\ selectedGrowthStage' = growthStage
  /\ localStorage' =
       setItem(removeItem(localStorage, AnswersKey),
               PathKey, stringifyPath(selectedBusinessType, growthStage))
  /\ currentQuestionIndex' = 0
  /\ answers' = <<>>
  /\ step' = "questions"
  /\ pushes' = 0
  /\ chosen' = NoChoice
  /\ last' = Did("selectGrowthStage", <<PathKey>>, FALSE)
  /\ UNCHANGED <<mounted, selectedBusinessType, navigating>>

\* selectGrowthStage storing the selectedGrowthStage of the current render
\* (not yet updated) in the path instead of its argument.
selectGrowthStage_staleStage(growthStage) ==
  /\ mounted /\ step = "growth-stage"
  /\ selectedGrowthStage' = growthStage
  /\ localStorage' =
       setItem(removeItem(removeItem(localStorage, ScoreKey), AnswersKey),
               PathKey, stringifyPath(selectedBusinessType, selectedGrowthStage))
  /\ currentQuestionIndex' = 0
  /\ answers' = <<>>
  /\ step' = "questions"
  /\ pushes' = 0
  /\ chosen' = NoChoice
  /\ last' = Did("selectGrowthStage", <<PathKey>>, FALSE)
  /\ UNCHANGED <<mounted, selectedBusinessType, navigating>>

selectGrowthStage(growthStage) ==
  /\ mounted /\ step = "growth-stage"
  /\ selectedGrowthStage' = growthStage
  /\ localStorage' =
       setItem(removeItem(removeItem(localStorage, ScoreKey), AnswersKey),
               PathKey, stringifyPath(selectedBusinessType, growthStage))
  /\ currentQuestionIndex' = 0
  /\ answers' = <<>>
  /\ step' = "questions"
  /\ pushes' = 0
  /\ chosen' = NoChoice
  /\ last' = Did("selectGrowthStage", <<PathKey>>, FALSE)
  /\ UNCHANGED <<mounted, selectedBusinessType, navigating>>

\* backToBusinessType that also unsets the business type.
backToBusinessType_clearsType ==
  /\ mounted /\ step = "growth-stage"
  /\ step' = "business-type"
  /\ selectedBusinessType' = Null
  /\ last' = Did("backToBusinessType", <<>>, FALSE)
  /\ UNCHANGED <<mounted, selectedGrowthStage,
                 currentQuestionIndex, answers, localStorage, navigating,
                 pushes, chosen>>

\* onClick of the "Back to business type" button
backToBusinessType ==
  /\ mounted /\ step = "growth-stage"
  /\ step' = "business-type"
  /\ last' = Did("backToBusinessType", <<>>, FALSE)
  /\ UNCHANGED <<mounted, selectedBusinessType, selectedGrowthStage,
                 currentQuestionIndex, answers, localStorage, navigating,
                 pushes, chosen>>

\* questions of the rendered question screen
questions == getQuestionsForPath(selectedBusinessType, selectedGrowthStage)

\* progress computed from the index without the + 1.
progress_noPlusOne ==
  [num |-> currentQuestionIndex * 100, den |-> Len(questions)]

\* ((currentQuestionIndex + 1) / questions.length) * 100, as the fraction
\* num / den (real arithmetic).
progress ==
  LET ratio == [num |-> currentQuestionIndex + 1, den |-> Len(questions)]
  IN  [num |-> ratio.num * 100, den |-> ratio.den]

\* style width `${progress}%` of the progress bar: the part of the track
\* that is filled, as the fraction num / den.
barWidth == [num |-> progress.num, den |-> progress.den * 100]

\* handleAnswer comparing the index with questions.length instead of
\* questions.length - 1.
handleAnswer_offByOne(points) ==
  LET newAnswers == ArraySet(answers, currentQuestionIndex, points)
      saved      == setItem(localStorage, AnswersKey, stringifyArray(newAnswers))
  IN
  /\ mounted /\ step = "questions"
  /\ answers' = newAnswers
  /\ chosen' = [i \in (DOMAIN chosen) \cup {currentQuestionIndex} |->
                  IF i = currentQuestionIndex THEN points ELSE chosen[i]]
  /\ IF currentQuestionIndex < Len(questions)
       THEN /\ localStorage' = saved
            /\ currentQuestionIndex' = currentQuestionIndex + 1
            /\ last' = Did("handleAnswer", <<AnswersKey>>, FALSE)
            /\ UNCHANGED <<navigating, pushes>>
       ELSE /\ pushes < MaxPushes
            /\ localStorage' =
                 setItem(saved, ScoreKey, toString(reduceSum(newAnswers)))
            /\ navigating' = TRUE
            /\ pushes' = pushes + 1
            /\ last' = Did("handleAnswer", <<AnswersKey, ScoreKey>>, TRUE)
            /\ UNCHANGED currentQuestionIndex
  /\ UNCHANGED <<mounted, step, selectedBusinessType, selectedGrowthStage>>

\* handleAnswer that records the answer and stays on the same question
\* (setCurrentQuestionIndex(currentQuestionIndex)).
handleAnswer_noAdvance(points) ==
  LET newAnswers == ArraySet(answers, currentQuestionIndex, points)
      saved      == setItem(localStorage, AnswersKey, stringifyArray(newAnswers))
  IN
  /\ mounted /\ step = "questions"
  /\ answers' = newAnswers
  /\ chosen' = [i \in (DOMAIN chosen) \cup {currentQuestionIndex} |->
                  IF i = currentQuestionIndex THEN points ELSE chosen[i]]
  /\ IF currentQuestionIndex < Len(questions) - 1
       THEN /\ localStorage' = saved
            /\ currentQuestionIndex' = currentQuestionIndex
            /\ last' = Did("handleAnswer", <<AnswersKey>>, FALSE)
            /\ UNCHANGED <<navigating, pushes>>
       ELSE /\ pushes < MaxPushes
            /\ localStorage' =
                 setItem(saved, ScoreKey, toString(reduceSum(newAnswers)))
            /\ navigating' = TRUE
            /\ pushes' = pushes + 1
            /\ last' = Did("handleAnswer", <<AnswersKey, ScoreKey>>, TRUE)
            /\ UNCHANGED currentQuestionIndex
  /\ UNCHANGED <<mounted, step, selectedBusinessType, selectedGrowthStage>>

\* handleAnswer saving the answers of the current render (the list before
\* this answer) instead of newAnswers.
handleAnswer_staleSave(points) ==
  LET newAnswers == ArraySet(answers, currentQuestionIndex, points)
      saved      == setItem(localStorage, AnswersKey, stringifyArray(answers))
  IN
  /\ mounted /\ step = "questions"
  /\ answers' = newAnswers
  /\ chosen' = [i \in (DOMAIN chosen) \cup {currentQuestionIndex} |->
                  IF i = currentQuestionIndex THEN points ELSE chosen[i]]
  /\ IF currentQuestionIndex < Len(questions) - 1
       THEN /\ localStorage' = saved
            /\ currentQuestionIndex' = currentQuestionIndex + 1
            /\ last' = Did("handleAnswer", <<AnswersKey>>, FALSE)
            /\ UNCHANGED <<navigating, pushes>>
       ELSE /\ pushes < MaxPushes
            /\ localStorage' =
                 setItem(saved, ScoreKey, toString(reduceSum(newAnswers)))
            /\ navigating' = TRUE
            /\ pushes' = pushes + 1
            /\ last' = Did("handleAnswer", <<AnswersKey, ScoreKey>>, TRUE)
            /\ UNCHANGED currentQuestionIndex
  /\ UNCHANGED <<mounted, step, selectedBusinessType, selectedGrowthStage>>

handleAnswer(points) ==
  LET newAnswers == ArraySet(answers, currentQuestionIndex, points)
      saved      == setItem(localStorage, AnswersKey, stringifyArray(newAnswers))
  IN
  /\ mounted /\ step = "questions"
  /\ answers' = newAnswers
  /\ chosen' = [i \in (DOMAIN chosen) \cup {currentQuestionIndex} |->
                  IF i = currentQuestionIndex THEN points ELSE chosen[i]]
  /\ IF currentQuestionIndex < Len(questions) - 1
       THEN /\ localStorage' = saved
            /\ currentQuestionIndex' = currentQuestionIndex + 1
            /\ last' = Did("handleAnswer", <<AnswersKey>>, FALSE)
            /\ UNCHANGED <<navigating, pushes>>
       ELSE /\ pushes < MaxPushes
            /\ localStorage' =
                 setItem(saved, ScoreKey, toString(reduceSum(newAnswers)))
            /\ navigating' = TRUE
            /\ pushes' = pushes + 1
            /\ last' = Did("handleAnswer", <<AnswersKey, ScoreKey>>, TRUE)
            /\ UNCHANGED currentQuestionIndex
  /\ UNCHANGED <<mounted, step, selectedBusinessType, selectedGrowthStage>>

\* goBack that leaves the first question for the business-type screen.
goBack_toBusinessType ==
  /\ mounted /\ step = "questions"
  /\ IF currentQuestionIndex > 0
       THEN /\ currentQuestionIndex' = currentQuestionIndex - 1
            /\ UNCHANGED step
       ELSE /\ step' = "business-type"
            /\ UNCHANGED currentQuestionIndex
  /\ last' = Did("goBack", <<>>, FALSE)
  /\ UNCHANGED <<mounted, selectedBusinessType, selectedGrowthStage, answers,
                 localStorage, navigating, pushes, chosen>>

\* goBack that also drops the last recorded answer when it steps back.
goBack_popsAnswer ==
  /\ mounted /\ step = "questions"
  /\ IF currentQuestionIndex > 0
       THEN /\ currentQuestionIndex' = currentQuestionIndex - 1
            /\ answers' = SubSeq(answers, 1, Len(answers) - 1)
            /\ UNCHANGED step
       ELSE /\ step' = "growth-stage"
            /\ UNCHANGED <<currentQuestionIndex, answers>>
  /\ last' = Did("goBack", <<>>, FALSE)
  /\ UNCHANGED <<mounted, selectedBusinessType, selectedGrowthStage,
                 localStorage, navigating, pushes, chosen>>

\* goBack that unsets the growth stage when it leaves the question screen.
goBack_clearsStage ==
  /\ mounted /\ step = "questions"
  /\ IF currentQuestionIndex > 0
       THEN /\ currentQuestionIndex' = currentQuestionIndex - 1
            /\ UNCHANGED <<step, selectedGrowthStage>>
       ELSE /\ step' = "growth-stage"
            /\ selectedGrowthStage' = Null
            /\ UNCHANGED currentQuestionIndex
  /\ last' = Did("goBack", <<>>, FALSE)
  /\ UNCHANGED <<mounted, selectedBusinessType, answers,
                 localStorage, navigating, pushes, chosen>>

goBack ==
  /\ mounted /\ step = "questions"
  /\ IF currentQuestionIndex > 0
       THEN /\ currentQuestionIndex' = currentQuestionIndex - 1
            /\ UNCHANGED step
       ELSE /\ step' = "growth-stage"
            /\ UNCHANGED currentQuestionIndex
  /\ last' = Did("goBack", <<>>, FALSE)
  /\ UNCHANGED <<mounted, selectedBusinessType, selectedGrowthStage, answers,
                 localStorage, navigating, pushes, chosen>>

\* The navigation started by router.push commits: the results view replaces
\* the quiz page.
NavCommit ==
  /\ mounted /\ navigating
  /\ mounted' = FALSE
  /\ navigating' = FALSE
  /\ last' = Did("navCommit", <<>>, FALSE)
  /\ UNCHANGED <<reactState, localStorage, pushes, chosen>>

\* The visitor opens the quiz page again: the component state is fresh, the
\* storage is what the earlier run left.
Mount ==
  /\ ~mounted
  /\ mounted' = TRUE
  /\ step' = "intro"
  /\ selectedBusinessType' = Null
  /\ selectedGrowthStage' = Null
  /\ currentQuestionIndex' = 0
  /\ answers' = <<>>
  /\ pushes' = 0
  /\ chosen' = NoChoice
  /\ last' = [op |-> "mount", index |-> 0, len |-> 0,
              keys |-> DOMAIN localStorage, writes |-> <<>>, handoff |-> FALSE]
  /\ UNCHANGED <<localStorage, navigating>>

Next ==
  \/ startQuiz
  \/ \E businessType \in BusinessTypes : selectBusinessType(businessType)
  \/ \E growthStage \in GrowthStages : selectGrowthStage(growthStage)
  \/ backToBusinessType
  \/ \E points \in (IF step = "questions" /\ currentQuestionIndex < Len(questions)
                      THEN questions[currentQuestionIndex + 1] ELSE {}) :
        handleAnswer(points)
  \/ goBack
  \/ NavCommit
  \/ Mount

Spec == Init /\ [][Next]_vars

\* a click on an option of the question shown
Answer ==
  \E points \in (IF step = "questions" /\ currentQuestionIndex < Len(questions)
                   THEN questions[currentQuestionIndex + 1] ELSE {}) :
     handleAnswer(points)

\* The visitor keeps answering: an option is clicked whenever a question
\* stays on screen.
LiveSpec == Init /\ [][Next]_vars /\ WF_vars(Answer)

\* ------------------------------------------------------------------- types
TypeOK ==
  /\ mounted \in BOOLEAN
  /\ step \in Steps
  /\ selectedBusinessType \in BusinessTypes \cup {Null}
  /\ selectedGrowthStage \in GrowthStages \cup {Null}
  /\ currentQuestionIndex \in 0..MaxQuestions
  /\ DOMAIN localStorage \subseteq Keys
  /\ navigating \in BOOLEAN
  /\ pushes \in 0..MaxPushes

\* ------------------------------------------------------------------ claims
\* number of questions of the selected path
N == Len(questions)

RECURSIVE SumChosen(_)
\* chosen[0] + ... + chosen[n - 1]
SumChosen(n) == IF n = 0 THEN 0 ELSE chosen[n - 1] + SumChosen(n - 1)

\* C1: whenever the last question has just been answered (the hand-off was
\* made), every index 0..N-1 has a most recently chosen value, the list holds
\* exactly those N values, and the stored score is the decimal string of
\* their sum, whatever back steps and re-answers came before.
C1_ScoreIsSumOfLatestChoices ==
  last.handoff =>
    /\ DOMAIN chosen = 0..(N - 1)
    /\ Len(answers) = N
    /\ \A i \in 0..(N - 1) : answers[i + 1] = chosen[i]
    /\ ScoreKey \in DOMAIN localStorage
    /\ localStorage[ScoreKey] = toString(SumChosen(N))

\* C1 witness: a longest path completed for the first time, with a two-digit
\* total.
C1_Witness ==
  /\ last.handoff
  /\ N = MaxQuestions
  /\ pushes = 1
  /\ Len(localStorage[ScoreKey]) = 2

\* C2: right after a growth-stage choice the score key and the answers key
\* are absent, the in-memory list is empty, the index is 0 and the question
\* screen is shown.
C2_SelectGrowthStageResets ==
  last.op = "selectGrowthStage" =>
    /\ ScoreKey \notin DOMAIN localStorage
    /\ AnswersKey \notin DOMAIN localStorage
    /\ answers = <<>>
    /\ currentQuestionIndex = 0
    /\ step = "questions"

\* C2 witness: a growth stage was chosen while answers and score of an
\* earlier run were stored and the in-memory list was not empty.
C2_Witness ==
  /\ last.op = "selectGrowthStage"
  /\ {ScoreKey, AnswersKey} \subseteq last.keys
  /\ last.len > 0

\* C3 as stated: the list is never longer than the current index + 1.
C3_Original == Len(answers) <= currentQuestionIndex + 1

\* C3 amended: on the question screen the list is never longer than the
\* number of questions of the path, and the only handler after which it is
\* longer than the current index + 1, when it was not before, is goBack.
C3_LengthBounded ==
  [][ /\ step' = "questions" => Len(answers') <= N'
      /\ (C3_Original /\ ~C3_Original') => last'.op = "goBack" ]_vars

\* C3 witness: after back steps the list is longer than the index + 1.
C3_Witness ==
  /\ step = "questions"
  /\ last.op = "goBack"
  /\ Len(answers) = N
  /\ currentQuestionIndex = 0
  /\ N = MaxQuestions

\* C4: an answer at an index whose slot is already filled keeps the length
\* of the list and the value of every other slot, in memory and in the
\* stored answers array; slot i takes the value chosen.
C4_ReanswerOverwritesOneSlot ==
  [][ (last'.op = "handleAnswer" /\ currentQuestionIndex < Len(answers)) =>
        /\ Len(answers') = Len(answers)
        /\ \A j \in 1..Len(answers) :
             j # currentQuestionIndex + 1 => answers'[j] = answers[j]
        /\ answers'[currentQuestionIndex + 1] = chosen'[currentQuestionIndex]
        /\ AnswersKey \in DOMAIN localStorage
        /\ Len(localStorage'[AnswersKey]) = Len(localStorage[AnswersKey])
        /\ \A j \in 1..Len(localStorage[AnswersKey]) :
             j # currentQuestionIndex + 1 =>
               localStorage'[AnswersKey][j] = localStorage[AnswersKey][j]
        /\ localStorage'[AnswersKey][currentQuestionIndex + 1] =
             toString(chosen'[currentQuestionIndex]) ]_vars

\* C4 witness: the first slot of a full list of the longest path was
\* answered again.
C4_Witness ==
  /\ last.op = "handleAnswer"
  /\ last.index = 0
  /\ last.len = MaxQuestions
  /\ Len(answers) = MaxQuestions
  /\ answers[2] # answers[1]

\* C5 as stated: router.push is called only by an answer at the last index
\* N-1, and at most once between two growth-stage choices.
C5_HandoffExactlyOnce ==
  [][ pushes' > pushes =>
        /\ last'.op = "handleAnswer"
        /\ step = "questions"
        /\ currentQuestionIndex = N - 1
        /\ pushes = 0 ]_vars

\* the handler of this step called setItem on key k
Wrote(k) == \E i \in 1..Len(last'.writes) : last'.writes[i] = k

\* C6 as stated: the score key is written by an answer at the last index
\* only, it is absent from a growth-stage choice until then, and it is
\* written at most once between two growth-stage choices (the key is absent
\* when it is written).
C6_ScoreWrittenOnce ==
  [][ /\ (step' = "questions" /\ pushes' = 0) => ScoreKey \notin DOMAIN localStorage'
      /\ Wrote(ScoreKey) =>
           /\ last'.op = "handleAnswer"
           /\ currentQuestionIndex = N - 1
           /\ ScoreKey \notin DOMAIN localStorage ]_vars

\* C7: goBack at an index i > 0 sets the index to i-1 and leaves the screen,
\* the list, both selections and the storage as they were.
C7_GoBackDecrementsOnly ==
  [][ (last'.op = "goBack" /\ currentQuestionIndex > 0) =>
        /\ currentQuestionIndex' = currentQuestionIndex - 1
        /\ step' = "questions"
        /\ UNCHANGED <<step, answers, selectedBusinessType,
                       selectedGrowthStage, localStorage>> ]_vars

\* C7 witness: a back step from the last index of the longest path with
\* recorded answers in memory and in storage.
C7_Witness ==
  /\ last.op = "goBack"
  /\ last.index = MaxQuestions - 1
  /\ currentQuestionIndex = last.index - 1
  /\ Len(answers) >= last.index
  /\ AnswersKey \in DOMAIN localStorage

\* C8: goBack at index 0 shows the growth-stage screen and leaves both
\* selections, the list, the index and the storage as they were.
C8_GoBackFromFirstKeepsAll ==
  [][ (last'.op = "goBack" /\ currentQuestionIndex = 0) =>
        /\ step' = "growth-stage"
        /\ UNCHANGED <<selectedBusinessType, selectedGrowthStage, answers,
                       currentQuestionIndex, localStorage>> ]_vars

\* C8 witness: back from the first question with answers recorded and both
\* selections made.
C8_Witness ==
  /\ last.op = "goBack"
  /\ last.index = 0
  /\ step = "growth-stage"
  /\ Len(answers) > 0
  /\ selectedBusinessType # Null
  /\ selectedGrowthStage # Null
  /\ {AnswersKey, PathKey} \subseteq DOMAIN localStorage

\* C9: right after an answer the stored answers array is the JSON of the
\* in-memory list; on the question screen the answers key is absent only
\* while no answer was given since the growth-stage choice, and otherwise
\* holds the JSON of the in-memory list.
C9_StoredAnswersMirrorList ==
  /\ last.op = "handleAnswer" =>
       /\ AnswersKey \in DOMAIN localStorage
       /\ localStorage[AnswersKey] = stringifyArray(answers)
  /\ step = "questions" =>
       IF AnswersKey \in DOMAIN localStorage
         THEN /\ Len(localStorage[AnswersKey]) = Len(answers)
              /\ \A i \in 1..Len(answers) :
                   localStorage[AnswersKey][i] = toString(answers[i])
         ELSE answers = <<>> /\ DOMAIN chosen = {}

\* C9 witness: an answer overwrote a slot of a full list of the longest path.
C9_Witness ==
  /\ last.op = "handleAnswer"
  /\ last.len = MaxQuestions
  /\ last.index = 1
  /\ localStorage[AnswersKey] = stringifyArray(answers)
  /\ answers[2] = MaxPoints

\* the value under the path key differs after this step
PathChanged ==
  \/ (PathKey \in DOMAIN localStorage) # (PathKey \in DOMAIN localStorage')
  \/ /\ PathKey \in DOMAIN localStorage
     /\ PathKey \in DOMAIN localStorage'
     /\ localStorage'[PathKey] # localStorage[PathKey]

\* C10: only a growth-stage choice writes or changes the path key, it writes
\* it once, and on the question screen the stored path is the JSON of the
\* selected business type and growth stage.
C10_PathMirrorsSelections ==
  [][ /\ (PathChanged \/ Wrote(PathKey)) => last'.op = "selectGrowthStage"
      /\ last'.op = "selectGrowthStage" =>
           Cardinality({i \in 1..Len(last'.writes) : last'.writes[i] = PathKey}) = 1
      /\ step' = "questions" =>
           /\ PathKey \in DOMAIN localStorage'
           /\ localStorage'[PathKey] =
                stringifyPath(selectedBusinessType', selectedGrowthStage') ]_vars

\* C10 witness: a second growth-stage choice replaced a stored path by a
\* different one.
C10_Witness ==
  /\ last.op = "selectGrowthStage"
  /\ PathKey \in last.keys
  /\ step = "questions"
  /\ localStorage[PathKey] = stringifyPath("agency", "scaling")
  /\ last.len > 0

\* C11: whenever the question screen is shown both selections are set, and
\* the question screen is entered only by a growth-stage choice made on the
\* growth-stage screen with a business type already selected.
C11_SelectionsSetOnQuestions ==
  [][ /\ step' = "questions" =>
           /\ selectedBusinessType' \in BusinessTypes
           /\ selectedGrowthStage' \in GrowthStages
      /\ (step # "questions" /\ step' = "questions") =>
           /\ last'.op = "selectGrowthStage"
           /\ step = "growth-stage"
           /\ selectedBusinessType \in BusinessTypes ]_vars

\* C11 witness: the question screen entered in a freshly mounted component
\* (storage still holding an earlier run), both selections made.
C11_Witness ==
  /\ step = "questions"
  /\ last.op = "selectGrowthStage"
  /\ ScoreKey \in last.keys
  /\ last.len = 0
  /\ selectedBusinessType = "agency"
  /\ selectedGrowthStage = "growing"

\* C12: within one mounted component the selected business type changes only
\* by selectBusinessType on the business-type screen and the selected growth
\* stage only by selectGrowthStage on the growth-stage screen; handleAnswer
\* and goBack change neither.
C12_SelectionsChangeOnlyByChoice ==
  [][ last'.op # "mount" =>
        /\ selectedBusinessType' # selectedBusinessType =>
             (last'.op = "selectBusinessType" /\ step = "business-type")
        /\ selectedGrowthStage' # selectedGrowthStage =>
             (last'.op = "selectGrowthStage" /\ step = "growth-stage")
        /\ last'.op \in {"handleAnswer", "goBack"} =>
             UNCHANGED <<selectedBusinessType, selectedGrowthStage>> ]_vars

\* C12 witness: after a run on the freelancer path and two back steps to the
\* business-type screen, another business type was chosen.
C12_Witness ==
  /\ last.op = "selectBusinessType"
  /\ selectedBusinessType = "agency"
  /\ selectedGrowthStage = "startup"
  /\ PathKey \in DOMAIN localStorage
  /\ localStorage[PathKey] = stringifyPath("freelancer", "startup")
  /\ Len(answers) > 0

ScreenChange(from, to, op, index) ==
  \/ from = "intro" /\ to = "business-type" /\ op = "startQuiz"
  \/ from = "business-type" /\ to = "growth-stage" /\ op = "selectBusinessType"
  \/ from = "growth-stage" /\ to = "questions" /\ op = "selectGrowthStage"
  \/ from = "growth-stage" /\ to = "business-type" /\ op = "backToBusinessType"
  \/ from = "questions" /\ to = "growth-stage" /\ op = "goBack" /\ index = 0
  \/ from = "questions" /\ to = "questions" /\ op = "handleAnswer"
  \/ from = "questions" /\ to = "questions" /\ op = "goBack" /\ index > 0

\* C14: within one mounted component every handler moves the screen along
\* one of the listed transitions; the intro screen is never entered again and
\* the question screen is entered only by a growth-stage choice.
C14_ScreenTransitions ==
  [][ last'.op \notin {"mount", "navCommit"} =>
        /\ ScreenChange(step, step', last'.op, currentQuestionIndex)
        /\ step' # "intro"
        /\ (step # "questions" /\ step' = "questions") =>
             last'.op = "selectGrowthStage" ]_vars

\* C14 witness: the way back from the questions over the growth-stage screen
\* to the business-type screen was taken.
C14_Witness ==
  /\ last.op = "backToBusinessType"
  /\ step = "business-type"
  /\ selectedGrowthStage # Null
  /\ Len(answers) > 0

\* C15: startQuiz and backToBusinessType change the screen only;
\* selectBusinessType changes the selected business type and the screen
\* only; none of the three writes to storage.
C15_StartAndBackChangeScreenOnly ==
  [][ /\ last'.op \in {"startQuiz", "backToBusinessType"} =>
           UNCHANGED <<selectedBusinessType, selectedGrowthStage,
                       currentQuestionIndex, answers, localStorage>>
      /\ last'.op = "selectBusinessType" =>
           /\ UNCHANGED <<selectedGrowthStage, currentQuestionIndex, answers,
                          localStorage>>
           /\ step' = "growth-stage"
      /\ last'.op \in {"startQuiz", "backToBusinessType", "selectBusinessType"} =>
           /\ step' # step
           /\ last'.writes = <<>> ]_vars

\* C15 witness: a business type was chosen while answers, score and path of
\* a completed run were in memory and in storage.
C15_Witness ==
  /\ last.op = "selectBusinessType"
  /\ DOMAIN localStorage = Keys
  /\ Len(answers) = MaxQuestions
  /\ selectedGrowthStage # Null

\* C16: an answer at an index below N-1 moves to the next index and stays on
\* the question screen, an answer at N-1 hands off, so N-i answers in a row
\* from index i reach the hand-off; and if the visitor stays on the question
\* screen, eventually stops going back and keeps answering, the run is
\* eventually completed.
C16_AnsweringCompletes ==
  /\ [][ last'.op = "handleAnswer" =>
           IF currentQuestionIndex < N - 1
             THEN /\ currentQuestionIndex' = currentQuestionIndex + 1
                  /\ step' = "questions"
                  /\ ~last'.handoff
             ELSE /\ currentQuestionIndex = N - 1
                  /\ last'.handoff
                  /\ pushes' = pushes + 1 ]_vars
  /\ (/\ <>[](mounted /\ step = "questions")
      /\ <>[][last'.op # "goBack"]_vars)
       => <>[](pushes > 0)

\* C16 witness: the longest path completed for the first time, with the
\* answers 1, 2, ..., MaxPoints, the page still mounted.
C16_Witness ==
  /\ last.handoff
  /\ pushes = 1
  /\ N = MaxQuestions
  /\ answers[1] = 1 /\ answers[2] = 2 /\ answers[N] = MaxPoints
  /\ mounted /\ step = "questions"

\* C17: on the question screen the current index is one of 0..N-1 for the N
\* questions of the selected path, so the question rendered is defined, also
\* after the path was changed to one with fewer questions.
C17_IndexInRange ==
  step = "questions" =>
    /\ N >= 1
    /\ currentQuestionIndex >= 0
    /\ currentQuestionIndex <= N - 1
    /\ currentQuestionIndex + 1 \in DOMAIN questions

\* C17 witness: after a run on the longest path the visitor went back and
\* chose a path with one question.
C17_Witness ==
  /\ step = "questions"
  /\ last.op = "selectGrowthStage"
  /\ last.len = MaxQuestions
  /\ N = 1
  /\ currentQuestionIndex = 0

\* C18: on the question screen every index below the current one has a
\* recorded answer and no slot of the list is empty: index <= length <= N;
\* and the list stored by the completing answer has exactly N entries.
C18_ListFilledUpToIndex ==
  /\ step = "questions" =>
       /\ currentQuestionIndex <= Len(answers)
       /\ Len(answers) <= N
       /\ \A j \in 1..Len(answers) : answers[j] # Hole
  /\ last.handoff =>
       /\ AnswersKey \in DOMAIN localStorage
       /\ Len(localStorage[AnswersKey]) = N
       /\ \A j \in 1..N : localStorage[AnswersKey][j] # JsonNull

\* C18 witness: the first question of the longest path answered again with
\* the list already full: the index is 1, the length N.
C18_Witness ==
  /\ step = "questions"
  /\ last.op = "handleAnswer"
  /\ currentQuestionIndex = 1
  /\ Len(answers) = N
  /\ N = MaxQuestions
  /\ N > 2

\* the digit a character stands for
DigitValue(c) == CHOOSE d \in 0..9 : Digit(d) = c

RECURSIVE ParseDigits(_)
\* the number a sequence of decimal digits stands for
ParseDigits(t) ==
  IF t = <<>> THEN 0 ELSE 10 * ParseDigits(SubSeq(t, 1, Len(t) - 1)) + DigitValue(t[Len(t)])

RECURSIVE SumStored(_)
\* the sum of the numbers of a stored answers array
SumStored(a) == IF a = <<>> THEN 0 ELSE ParseDigits(Head(a)) + SumStored(Tail(a))

\* C19 as stated: on the question screen, whenever the score key is present
\* the stored answers array has N entries and the stored score is their sum.
C19_StoredScoreMatchesAnswers ==
  (step = "questions" /\ ScoreKey \in DOMAIN localStorage) =>
    /\ AnswersKey \in DOMAIN localStorage
    /\ Len(localStorage[AnswersKey]) = N
    /\ ParseDigits(localStorage[ScoreKey]) = SumStored(localStorage[AnswersKey])

====
